---- MODULE Spec2Model ----
(***************************************************************************)
(* The agentic RAG service.  The workflow of src/graph/rag_graph.py is the *)
(* LangGraph state graph of six nodes and two conditional routes, run by   *)
(* run_agentic_rag over an AgenticRAGState and checkpointed per thread in  *)
(* MongoDB; process_query serves it over HTTP, the session manager reads   *)
(* and deletes the checkpoints of a thread.  Every collaborator (the LLM,  *)
(* the vector store, the web search provider, the database of the session  *)
(* manager) is an input chosen by the environment: it returns or raises.   *)
(***************************************************************************)
EXTENDS Integers, Sequences, FiniteSets, TLC

(***************************************************************************)
(* Bounds of the model.                                                    *)
(***************************************************************************)
\* settings.max_iterations is an unvalidated int; the model draws it from
\* 0..MaxIterBound and its default
MaxIterBound == 1
\* the vector store returns the first n documents of its ranking, n in 0..MaxDocs
MaxDocs == 1
\* the Tavily tool returns n results, n in 0..MaxResults
MaxResults == 1
\* the message logs given to the sliding window have 0..MaxLogLen entries
MaxLogLen == 3
\* the sliding window is asked for 0..MaxWindow messages
MaxWindow == 4
\* the steps of two server processes interleave with at most MaxSwitches
\* changes of the process that steps
MaxSwitches == 2
\* the largest limit passed to list_active_sessions
MaxLimit == 2

(***************************************************************************)
(* Constants of the program.                                               *)
(***************************************************************************)
\* the default of settings.max_iterations
DefaultMaxIterations == 3
\* the default of settings.max_context_messages
DefaultMaxContextMessages == 10

None == "<None>"
START == "__start__"
END == "__end__"

NODE_QUERY_REWRITER == "query_rewriter"
NODE_NEEDS_MORE_INFO == "needs_more_info"
NODE_SOURCE_SELECTOR == "source_selector"
NODE_RETRIEVER == "retriever"
NODE_ANSWER_GENERATOR == "answer_generator"
NODE_ANSWER_EVALUATOR == "answer_evaluator"

Nodes == {NODE_QUERY_REWRITER, NODE_NEEDS_MORE_INFO, NODE_SOURCE_SELECTOR,
          NODE_RETRIEVER, NODE_ANSWER_GENERATOR, NODE_ANSWER_EVALUATOR}

SOURCE_VECTOR_DB == "vector_database"
SOURCE_TOOLS_API == "tools_api"
SOURCE_WEB_SEARCH == "web_search"

valid_sources == {SOURCE_VECTOR_DB, SOURCE_TOOLS_API, SOURCE_WEB_SEARCH}

(***************************************************************************)
(* Python string operations, computed character by character.              *)
(***************************************************************************)
Whitespace == {" ", "\n", "\t"}

RECURSIVE lstrip(_)
lstrip(s) ==
    IF Len(s) = 0 THEN s
    ELSE IF SubSeq(s, 1, 1) \in Whitespace THEN lstrip(SubSeq(s, 2, Len(s)))
    ELSE s

RECURSIVE rstrip(_)
rstrip(s) ==
    IF Len(s) = 0 THEN s
    ELSE IF SubSeq(s, Len(s), Len(s)) \in Whitespace THEN rstrip(SubSeq(s, 1, Len(s) - 1))
    ELSE s

strip(s) == rstrip(lstrip(s))

ascii_lowercase == "abcdefghijklmnopqrstuvwxyz"
ascii_uppercase == "ABCDEFGHIJKLMNOPQRSTUVWXYZ"

\* the character of `to` at the place c has in `from`, c itself when it has none
MapChar(c, from, to) ==
    IF \E i \in 1..Len(from) : SubSeq(from, i, i) = c
    THEN LET i == CHOOSE j \in 1..Len(from) : SubSeq(from, j, j) = c
         IN SubSeq(to, i, i)
    ELSE c

RECURSIVE MapString(_, _, _)
MapString(s, from, to) ==
    IF Len(s) = 0 THEN s
    ELSE MapChar(SubSeq(s, 1, 1), from, to) \o MapString(SubSeq(s, 2, Len(s)), from, to)

upper(s) == MapString(s, ascii_lowercase, ascii_uppercase)
lower(s) == MapString(s, ascii_uppercase, ascii_lowercase)

\* str(bool)
BoolStr(b) == IF b THEN "True" ELSE "False"

RECURSIVE join(_, _)
join(sep, parts) ==
    IF Len(parts) = 0 THEN ""
    ELSE IF Len(parts) = 1 THEN parts[1]
    ELSE parts[1] \o sep \o join(sep, Tail(parts))

(***************************************************************************)
(* Messages.  A plain string a node returns in "messages" is coerced by    *)
(* the add_messages reducer to a human message.                            *)
(***************************************************************************)
HumanMessage(content) == [type |-> "human", content |-> content]
AIMessage(content) == [type |-> "ai", content |-> content]
SystemMessage(content) == [type |-> "system", content |-> content]

\* a reducer that replaces the log by the update
add_messages_overwrite(left, right) == right

\* the reducer of the messages field: the update is appended to the log
add_messages(left, right) == left \o right

(***************************************************************************)
(* The workflow state is a dict: a function from field names to values.    *)
(* A node returns a partial update, which the graph merges into the state: *)
(* "messages" through its reducer, every other field by overwriting.       *)
(***************************************************************************)
EmptyDict == [k \in {} |-> None]

get(d, key, default) == IF key \in DOMAIN d THEN d[key] ELSE default

Merge(state_, update) ==
    [k \in DOMAIN state_ \cup DOMAIN update |->
        IF k \notin DOMAIN update THEN state_[k]
        ELSE IF k = "messages" /\ k \in DOMAIN state_
             THEN add_messages(state_[k], update[k])
             ELSE update[k]]

(***************************************************************************)
(* The sliding window over the message log (core/message_filter.py).       *)
(***************************************************************************)
\* seq[start:] of Python: a negative start counts from the end
SliceFrom(seq, start) ==
    LET n == Len(seq)
        first == IF start < 0 THEN (IF n + start < 0 THEN 0 ELSE n + start)
                 ELSE (IF start > n THEN n ELSE start)
    IN SubSeq(seq, first + 1, n)

\* a window that drops one entry from the front of a log that is too long
sliding_window_drop_oldest(messages, max_messages) ==
    IF Len(messages) <= max_messages THEN messages
    ELSE SliceFrom(messages, 1)

\* the body of filter_messages_sliding_window once max_messages is an int
sliding_window(messages, max_messages) ==
    IF Len(messages) <= max_messages THEN messages
    ELSE SliceFrom(messages, -max_messages)

\* the optional argument max_messages is << >> for None and <<n>> for n
filter_messages_sliding_window(messages, max_messages, settings_) ==
    IF messages = << >> THEN messages
    ELSE sliding_window(messages,
                        IF max_messages = << >> THEN settings_.max_context_messages
                        ELSE max_messages[1])

(***************************************************************************)
(* Inputs of the environment.                                              *)
(***************************************************************************)
Queries == {"What is 2 + 2?", "Explain machine learning"}

\* the texts the LLM answers with, per prompt
RewriteResponses == {" rewritten query\n"}
NeedsInfoResponses == {"YES", " yes\n", "NO", "Maybe"}
SourceResponses == {"vector_database", " Tools_API\n", "web_search", "wikipedia"}
AnswerResponses == {" an answer\n"}
EvaluationResponses == {" yes\n", "NO", "Partially"}

\* an LLM call returns a text or raises
LLMOutcomes(texts) ==
    [kind : {"ok"}, content : texts] \cup {[kind |-> "raise", content |-> "LLMError"]}

\* the i-th document of the vector store's ranking; every second one has no source
Document(i) ==
    [page_content |-> "text " \o ToString(i),
     metadata |-> IF i % 2 = 1 THEN [source |-> "doc" \o ToString(i) \o ".txt"]
                  ELSE EmptyDict]

\* the i-th result of the Tavily tool; every second one has a snippet and no url
SearchResult(i) ==
    IF i % 2 = 1
    THEN [title |-> "title " \o ToString(i), content |-> "content " \o ToString(i),
          url |-> "http://" \o ToString(i)]
    ELSE [snippet |-> "snippet " \o ToString(i)]

\* what the vector store does: its initialization raises, the search raises, or
\* the search returns the first n documents
VectorOutcomes ==
    [kind : {"init_raise", "search_raise"}, n : {0}] \cup [kind : {"ok"}, n : 0..MaxDocs]

\* what the web search provider does: the import fails, the call raises, or it
\* returns n results
WebOutcomes ==
    [kind : {"import_error", "raise"}, n : {0}] \cup [kind : {"ok"}, n : 0..MaxResults]

\* the tools manager only lists its tools: it calls no collaborator
ToolsOutcomes == {[kind |-> "ok", n |-> 0]}

\* the settings read from the environment; none of them is validated
SettingsValues ==
    [max_iterations : 0..MaxIterBound \cup {DefaultMaxIterations},
     tavily_api_key : {"", "tvly-key"},
     serpapi_api_key : {"", "serp-key"},
     max_context_messages : {DefaultMaxContextMessages}]

(***************************************************************************)
(* The agents: what each makes of the text the LLM answered with.          *)
(***************************************************************************)
rewrite_query(content) == strip(content)

check_needs_more_info(content) ==
    LET decision == upper(strip(content))
    IN decision = "YES"

\* a selector that trusts the LLM's text
select_source_verbatim(content) == lower(strip(content))

select_source(content) ==
    LET selected_source == lower(strip(content))
    IN IF selected_source \notin valid_sources THEN SOURCE_VECTOR_DB ELSE selected_source

\* what generate_answer sends to the LLM: the prompt with the context when
\* the context is truthy, the direct-answer prompt otherwise
generation_input(query, context) ==
    IF context # None /\ context # ""
    THEN [prompt |-> "ANSWER_GENERATION_PROMPT", query |-> query, context |-> context]
    ELSE [prompt |-> "ANSWER_GENERATION_NO_CONTEXT_PROMPT", query |-> query]

\* what evaluate_answer sends to the LLM
evaluation_input(query, answer, context) ==
    [prompt |-> "ANSWER_EVALUATION_PROMPT", query |-> query, answer |-> answer,
     context |-> IF context # None /\ context # "" THEN context
                 ELSE "No context provided"]

generate_answer(content) == strip(content)

evaluate_answer(content) ==
    LET decision == upper(strip(content))
    IN decision = "YES"

(***************************************************************************)
(* The retrieval managers.                                                 *)
(***************************************************************************)
\* VectorStoreManager.retrieve once the store is initialized: a failed search is
\* logged and gives no documents
retrieve(outcome) ==
    IF outcome.kind = "ok" THEN [i \in 1..outcome.n |-> Document(i)] ELSE << >>

\* format_documents without its text for an empty result
format_documents_blank(docs) ==
    IF Len(docs) = 0 THEN ""
    ELSE join("\n\n", [i \in 1..Len(docs) |-> docs[i].page_content])

format_documents(docs) ==
    IF Len(docs) = 0 THEN "No relevant documents found."
    ELSE LET context_parts ==
                 [i \in 1..Len(docs) |->
                     "[Document " \o ToString(i) \o " - Source: "
                         \o get(docs[i].metadata, "source", "Unknown") \o "]\n"
                         \o docs[i].page_content]
         IN join("\n\n", context_parts)

available_tools == <<"calculator", "datetime">>

get_tools_info == "Available tools: " \o join(", ", available_tools)

_mock_search(query) ==
    "[Mock Web Search Results for: " \o query \o "]\n\n"
        \o "Note: No web search provider configured. "
        \o "Set TAVILY_API_KEY or SERPAPI_API_KEY in .env to enable real web search.\n\n"
        \o "This is a placeholder for web search results."

RECURSIVE FormatResults(_, _)
FormatResults(results, i) ==
    IF i > Len(results) THEN << >>
    ELSE LET result == results[i]
             title == get(result, "title", "No title")
             content == get(result, "content", get(result, "snippet", "No content"))
             url == get(result, "url", "")
         IN <<"[Result " \o ToString(i) \o "]", "Title: " \o title, "Content: " \o content>>
                \o (IF url # "" THEN <<"URL: " \o url>> ELSE << >>)
                \o <<"">>
                \o FormatResults(results, i + 1)

_format_search_results(results) ==
    IF Len(results) = 0 THEN "No web search results found."
    ELSE join("\n", <<"Web Search Results:\n">> \o FormatResults(results, 1))

_tavily_search(query, outcome) ==
    CASE outcome.kind = "import_error" -> _mock_search(query)
      [] outcome.kind = "raise" -> "Web search error: " \o "timeout"
      [] OTHER -> _format_search_results([i \in 1..outcome.n |-> SearchResult(i)])

_serpapi_search(query, outcome) ==
    CASE outcome.kind = "import_error" -> _mock_search(query)
      [] outcome.kind = "raise" -> "Web search error: " \o "timeout"
      [] OTHER -> "Web Search Results:\n"
                      \o join(" ", [i \in 1..outcome.n |-> "snippet " \o ToString(i)])

_initialize_search_provider(settings_) ==
    IF settings_.tavily_api_key # "" THEN "tavily"
    ELSE IF settings_.serpapi_api_key # "" THEN "serpapi"
    ELSE None

search(search_provider, query, outcome) ==
    IF search_provider = None THEN _mock_search(query)
    ELSE IF search_provider = "tavily" THEN _tavily_search(query, outcome)
    ELSE IF search_provider = "serpapi" THEN _serpapi_search(query, outcome)
    ELSE _mock_search(query)

(***************************************************************************)
(* The nodes: the partial update each returns, given the state it reads    *)
(* and what its collaborator answered.                                     *)
(***************************************************************************)
\* a rewriter that also counts the pass, as rewrite_query_node of src/agent does
query_rewriter_node_counting(state_, content) ==
    LET rewritten == rewrite_query(content)
    IN [rewritten_query |-> rewritten,
        iteration |-> get(state_, "iteration", 0) + 1,
        messages |-> <<SystemMessage("Query rewritten to: " \o rewritten)>>]

query_rewriter_node(state_, content) ==
    LET rewritten == rewrite_query(content)
    IN [rewritten_query |-> rewritten,
        messages |-> <<SystemMessage("Query rewritten to: " \o rewritten)>>]

\* a check that also picks the default source
needs_more_info_node_preselecting(state_, content) ==
    LET needs_info == check_needs_more_info(content)
    IN [needs_retrieval |-> needs_info,
        selected_source |-> SOURCE_VECTOR_DB,
        messages |-> <<HumanMessage("Needs retrieval: " \o BoolStr(needs_info))>>]

needs_more_info_node(state_, content) ==
    LET needs_info == check_needs_more_info(content)
    IN [needs_retrieval |-> needs_info,
        messages |-> <<HumanMessage("Needs retrieval: " \o BoolStr(needs_info))>>]

\* a selector that records nothing in the log
source_selector_node_quiet(state_, content) ==
    LET source == select_source(content)
    IN [selected_source |-> source,
        messages |-> << >>]

source_selector_node(state_, content) ==
    LET source == select_source(content)
    IN [selected_source |-> source,
        messages |-> <<HumanMessage("Selected source: " \o source)>>]

\* the try block of retriever_node: the context, or the error text of what it raised
RetrieveContext(source, query, settings_, outcome) ==
    IF source = SOURCE_VECTOR_DB
    THEN IF outcome.kind = "init_raise"
         THEN "Error during retrieval: " \o "connection refused"
         ELSE format_documents(retrieve(outcome))
    ELSE IF source = SOURCE_TOOLS_API THEN get_tools_info
    ELSE IF source = SOURCE_WEB_SEARCH
    THEN search(_initialize_search_provider(settings_), query, outcome)
    ELSE ""

\* a retriever that hands on an empty context when nothing was found
retriever_node_silent(state_, settings_, outcome) ==
    LET query == state_["rewritten_query"]
        source == state_["selected_source"]
        context == RetrieveContext(source, query, settings_, outcome)
    IN [retrieved_context |-> IF context = format_documents(<< >>) THEN "" ELSE context,
        messages |-> <<HumanMessage("Retrieved context from " \o source)>>]

retriever_node(state_, settings_, outcome) ==
    LET query == state_["rewritten_query"]
        source == state_["selected_source"]
        context == RetrieveContext(source, query, settings_, outcome)
    IN [retrieved_context |-> context,
        messages |-> <<HumanMessage("Retrieved context from " \o source)>>]

\* a node that hands the windowed log back to the graph with its message
answer_generator_node_windowed(state_, settings_, content) ==
    LET all_messages == get(state_, "messages", << >>)
        filtered_messages == filter_messages_sliding_window(all_messages, << >>, settings_)
        answer == generate_answer(content)
    IN [answer |-> answer,
        messages |-> filtered_messages \o <<AIMessage(answer)>>]

\* filtered_messages is computed and then used by nothing: generate_answer
\* gets the query and the context only
answer_generator_node(state_, settings_, content) ==
    LET all_messages == get(state_, "messages", << >>)
        filtered_messages == filter_messages_sliding_window(all_messages, << >>, settings_)
        answer == generate_answer(content)
    IN [answer |-> answer,
        messages |-> <<AIMessage(answer)>>]

answer_evaluator_node(state_, content) ==
    LET is_relevant == evaluate_answer(content)
        current_iteration == get(state_, "iteration", 0) + 1
    IN [answer_is_relevant |-> is_relevant,
        iteration |-> current_iteration,
        messages |-> <<HumanMessage("Answer is relevant: " \o BoolStr(is_relevant)
                           \o " (Iteration: " \o ToString(current_iteration) \o ")")>>]

(***************************************************************************)
(* The conditional edges.                                                  *)
(***************************************************************************)
\* the two targets exchanged
route_after_needs_info_swapped(state_) ==
    IF state_["needs_retrieval"] THEN NODE_ANSWER_GENERATOR ELSE NODE_SOURCE_SELECTOR

route_after_needs_info(state_) ==
    IF state_["needs_retrieval"] THEN NODE_SOURCE_SELECTOR ELSE NODE_ANSWER_GENERATOR

\* the bound compared with > : one cycle too many
route_after_evaluation_strict(state_, settings_) ==
    LET is_relevant == get(state_, "answer_is_relevant", FALSE)
        iteration == get(state_, "iteration", 0)
        max_iterations == get(state_, "max_iterations", settings_.max_iterations)
    IN IF is_relevant THEN END
       ELSE IF iteration > max_iterations THEN END
       ELSE NODE_QUERY_REWRITER

\* the bound reached one cycle early
route_after_evaluation_early(state_, settings_) ==
    LET is_relevant == get(state_, "answer_is_relevant", FALSE)
        iteration == get(state_, "iteration", 0)
        max_iterations == get(state_, "max_iterations", settings_.max_iterations)
    IN IF is_relevant THEN END
       ELSE IF iteration + 1 >= max_iterations THEN END
       ELSE NODE_QUERY_REWRITER

\* the verdict of the evaluator ignored: only the bound ends the run
route_after_evaluation_blind(state_, settings_) ==
    LET iteration == get(state_, "iteration", 0)
        max_iterations == get(state_, "max_iterations", settings_.max_iterations)
    IN IF iteration >= max_iterations THEN END
       ELSE NODE_QUERY_REWRITER

\* no retry: the run ends after the first evaluation
route_after_evaluation_once(state_, settings_) == END

route_after_evaluation(state_, settings_) ==
    LET is_relevant == get(state_, "answer_is_relevant", FALSE)
        iteration == get(state_, "iteration", 0)
        max_iterations == get(state_, "max_iterations", settings_.max_iterations)
    IN IF is_relevant THEN END
       ELSE IF iteration >= max_iterations THEN END
       ELSE NODE_QUERY_REWRITER

\* an initial state that does not record the query
initial_state_unset(query) ==
    [original_query |-> "",
     rewritten_query |-> "",
     needs_retrieval |-> FALSE,
     selected_source |-> None,
     retrieved_context |-> "",
     answer |-> "",
     answer_is_relevant |-> FALSE,
     iteration |-> 0,
     messages |-> <<HumanMessage(query)>>]

\* the state run_agentic_rag hands to the graph
initial_state(query) ==
    [original_query |-> query,
     rewritten_query |-> "",
     needs_retrieval |-> FALSE,
     selected_source |-> None,
     retrieved_context |-> "",
     answer |-> "",
     answer_is_relevant |-> FALSE,
     iteration |-> 0,
     messages |-> <<HumanMessage(query)>>]

(***************************************************************************)
(* The query endpoint and the checkpoint store.                            *)
(***************************************************************************)
\* the requests a client posts to /query
Requests == [query : Queries,
             thread_id : {None, "", "thread-A", "thread-B"},
             user_id : {None, "u1"}]

\* the identifiers uuid4 can produce
Uuids == {"uuid-1", "uuid-2"}

\* `if x:` on an optional string
Truthy(x) == x # None /\ x # ""

\* str(uuid4()): an identifier that no earlier call has produced
uuid4(issued_) == Uuids \ issued_

\* every request on a thread of its own
get_thread_id_always_new(thread_id_, user_id, issued_) == uuid4(issued_)

\* the thread ids get_thread_id can return for a request
get_thread_id(thread_id_, user_id, issued_) ==
    IF Truthy(thread_id_) THEN {thread_id_}
    ELSE IF Truthy(user_id) THEN {"user_" \o user_id \o "_session"}
    ELSE uuid4(issued_)

\* the checkpoints collection, as a dict from thread_id to the documents of
\* the thread in the order they were written; a document has the id of the
\* checkpoint, which grows with every write, and the values of the channels
ThreadCheckpoints(collection, thread_id_) == get(collection, thread_id_, << >>)

\* what checkpointer.get answers for a thread without checkpoint (Python None)
NoCheckpoint == [checkpoint_id |-> 0]

\* a read that answers the first checkpoint written
get_checkpoint_oldest(collection, thread_id_) ==
    IF ThreadCheckpoints(collection, thread_id_) = << >> THEN NoCheckpoint
    ELSE ThreadCheckpoints(collection, thread_id_)[1]

\* checkpointer.get(config): the checkpoint of the thread with the highest id
get_checkpoint(collection, thread_id_) ==
    LET docs == ThreadCheckpoints(collection, thread_id_)
    IN IF docs = << >> THEN NoCheckpoint
       ELSE CHOOSE doc \in {docs[i] : i \in 1..Len(docs)} :
               \A i \in 1..Len(docs) : docs[i].checkpoint_id <= doc.checkpoint_id

\* the checkpointer writes the state of the thread after a step of the graph
put_checkpoint(collection, thread_id_, values) ==
    LET docs == ThreadCheckpoints(collection, thread_id_)
        doc == [checkpoint_id |-> Len(docs) + 1, channel_values |-> values]
    IN [t \in DOMAIN collection \cup {thread_id_} |->
           IF t = thread_id_ THEN Append(docs, doc) ELSE collection[t]]

\* a run that starts from its input alone, whatever the thread holds
invoke_state_fresh(collection, thread_id_, input) == Merge(EmptyDict, input)

\* the state graph.invoke starts from: the checkpointed state of the thread
\* with the input merged into it
invoke_state(collection, thread_id_, input) ==
    IF get_checkpoint(collection, thread_id_) = NoCheckpoint THEN Merge(EmptyDict, input)
    ELSE Merge(get_checkpoint(collection, thread_id_).channel_values, input)

\* MongoDB answers the call of the session manager, or the call raises
StoreOutcomes == {"ok", "raise"}

\* a session record that counts nothing
get_session_info_empty(collection, thread_id_, outcome) ==
    [thread_id |-> thread_id_, message_count |-> 0]

\* SessionManager.get_session_info, without the timestamp of the record
get_session_info(collection, thread_id_, outcome) ==
    IF outcome = "raise" THEN [thread_id |-> thread_id_, message_count |-> 0]
    ELSE LET checkpoint == get_checkpoint(collection, thread_id_)
         IN IF checkpoint = NoCheckpoint
            THEN [thread_id |-> thread_id_, message_count |-> 0]
            ELSE LET messages == get(get(checkpoint, "channel_values", EmptyDict),
                                     "messages", << >>)
                 IN [thread_id |-> thread_id_, message_count |-> Len(messages)]

\* a delete without the filter on thread_id
delete_many_all(collection, thread_id_) == EmptyDict

\* db.checkpoints.delete_many({"thread_id": thread_id})
delete_many(collection, thread_id_) ==
    [t \in DOMAIN collection \ {thread_id_} |-> collection[t]]

\* what SessionManager.clear_thread returns: deleted_count > 0, False if it raised
clear_thread(collection, thread_id_, outcome) ==
    IF outcome = "raise" THEN FALSE
    ELSE Len(ThreadCheckpoints(collection, thread_id_)) > 0

\* a session named after its user
create_session_per_user(user_id, issued_) == {"user_" \o user_id \o "_session"}

\* SessionManager.create_session: the user is logged, the id is str(uuid4())
create_session(user_id, issued_) == uuid4(issued_)

\* the sequences of k different elements of S
RECURSIVE Arrangements(_, _)
Arrangements(S, k) ==
    IF k = 0 THEN {<< >>}
    ELSE UNION {{<<x>> \o rest : rest \in Arrangements(S \ {x}, k - 1)} : x \in S}

Min(a, b) == IF a <= b THEN a ELSE b

\* a pipeline without its $limit stage
aggregate_unlimited(collection, limit) ==
    Arrangements(DOMAIN collection, Cardinality(DOMAIN collection))

\* db.checkpoints.aggregate([$group by thread_id, $limit]): the thread ids of
\* the collection, each once, cut to `limit`, in an order MongoDB chooses
aggregate(collection, limit) ==
    Arrangements(DOMAIN collection, Min(limit, Cardinality(DOMAIN collection)))

\* SessionManager.list_active_sessions once the pipeline has answered
\* thread_ids: get_session_info of each, under its own store outcome
list_active_sessions(collection, thread_ids, outcomes) ==
    [i \in 1..Len(thread_ids) |->
        get_session_info(collection, thread_ids[i], outcomes[i])]

\* checkpointer.list(config, limit=limit): the newest `limit` checkpoints of
\* the thread, the newest first
list_checkpoints(collection, thread_id_, limit) ==
    LET docs == ThreadCheckpoints(collection, thread_id_)
    IN [i \in 1..Min(limit, Len(docs)) |-> docs[Len(docs) - i + 1]]

\* SessionManager.get_conversation_history: the snapshots, or [] if it raised
get_conversation_history(collection, thread_id_, limit, outcome) ==
    IF outcome = "raise" THEN << >>
    ELSE list_checkpoints(collection, thread_id_, limit)

\* the role the history endpoint gives a message
role(msg) ==
    IF msg.type = "human" THEN "user"
    ELSE IF msg.type = "ai" THEN "assistant"
    ELSE "system"

\* the loop of the history endpoint: the messages of every snapshot, one
\* snapshot after the other
RECURSIVE format_history(_)
format_history(history) ==
    IF history = << >> THEN << >>
    ELSE LET state_messages == get(Head(history).channel_values, "messages", << >>)
         IN [i \in 1..Len(state_messages) |->
                [role |-> role(state_messages[i]),
                 content |-> state_messages[i].content]]
            \o format_history(Tail(history))

\* what checkpointer.list yields: objects with the `values` the endpoint
\* reads, or tuples without that attribute
SnapshotKinds == {"state_snapshot", "checkpoint_tuple"}

\* the body of the 200 response of process_query
QueryResponse(result, thread_id_, query) ==
    [answer |-> get(result, "answer", "No answer generated"),
     thread_id |-> thread_id_,
     query |-> get(result, "original_query", query),
     rewritten_query |-> get(result, "rewritten_query", None),
     needs_retrieval |-> get(result, "needs_retrieval", FALSE),
     selected_source |-> get(result, "selected_source", None),
     answer_is_relevant |-> get(result, "answer_is_relevant", FALSE),
     iteration |-> get(result, "iteration", 0),
     message_count |-> Len(get(result, "messages", << >>))]

\* a body without the length limits on query
QueryRequest_unchecked(body) == TRUE

\* whether the body of a /query request validates against QueryRequest
QueryRequest(body) == Len(body.query) >= 1 /\ Len(body.query) <= 1000

\* the 422 response of validation_error_handler
validation_error_handler ==
    [status_code |-> 422, error |-> "Validation Error", message |-> "Invalid request data"]

\* the ping of get_checkpointer failed
ConfigurationError == "Database connection failed: ServerSelectionTimeoutError"

\* DatabaseService.health_check: whether get_checkpointer returned
health_check(mongo_) == mongo_ = "up"

\* the application before lifespan has run
Starting == [status |-> "starting", log |-> None]

\* lifespan up to its yield: both branches log and go on to serve
lifespan(is_healthy) ==
    [status |-> "started",
     log |-> IF is_healthy THEN "Database connection established"
             ELSE "Database connection failed - using degraded mode"]

\* no response yet: the request is being processed, or none was posted
NoResponse == [status_code |-> 0]

\* the 500 response process_query turns every exception into
HTTPException(e) ==
    [status_code |-> 500, detail |-> "Failed to process query: " \o e]

(***************************************************************************)
(* The state of the model.                                                 *)
(***************************************************************************)
VARIABLES
    settings,   \* the settings of the process
    state,      \* the workflow state of the thread
    pc,         \* START before the run, the node to run next, END after the run
    response,   \* what the collaborator of the last node run did
    exception,  \* None, or the exception that left graph.invoke and ended the run
    trace,      \* the nodes of this run that returned, in order
    requests,   \* the /query requests the clients have still to post, in order
    thread_id,  \* the thread of the run in progress, or of the last run
    checkpoints,\* the checkpoints collection of the database
    http,       \* what process_query answered to the last request
    returned,   \* what the last call served since the last /query request returned
    other,      \* state .. returned of the second server process
    switches,   \* how many times the process in view has changed
    issued,     \* the identifiers uuid4 has produced
    app,        \* the FastAPI application: starting, or started by lifespan
    mongo       \* whether MongoDB answers the ping of get_checkpointer

vars == <<settings, state, pc, response, exception, trace,
          requests, thread_id, checkpoints, http, returned, other, switches,
          issued, app, mongo>>

\* a single request on a named thread
SingleRequest ==
    {<<r>> : r \in {q \in Requests : q.thread_id = "thread-A" /\ q.user_id = None}}

\* what a server process holds when it has started and served no request
StartedProcess ==
    [state |-> EmptyDict,
     pc |-> START,
     response |-> [kind |-> None],
     exception |-> None,
     trace |-> << >>,
     thread_id |-> None,
     http |-> NoResponse,
     returned |-> [op |-> None]]

\* what the process in view holds
Process ==
    [state |-> state,
     pc |-> pc,
     response |-> response,
     exception |-> exception,
     trace |-> trace,
     thread_id |-> thread_id,
     http |-> http,
     returned |-> returned]

\* the processes have started: no request was served, the collection is empty
Started ==
    /\ state = StartedProcess.state
    /\ pc = StartedProcess.pc
    /\ response = StartedProcess.response
    /\ exception = StartedProcess.exception
    /\ trace = StartedProcess.trace
    /\ thread_id = StartedProcess.thread_id
    /\ http = StartedProcess.http
    /\ returned = StartedProcess.returned
    /\ other = StartedProcess
    /\ switches = 0
    /\ checkpoints = EmptyDict
    /\ issued = {}
    /\ app = lifespan(TRUE)
    /\ mongo = "up"

Init ==
    /\ settings \in SettingsValues
    /\ requests \in SingleRequest
    /\ Started

\* process_query is a coroutine that calls run_agentic_rag without awaiting:
\* the event loop serves no other request until it has returned or raised
Idle == pc \in {START, END} \/ exception # None

\* a node returned `update`: the graph merges it, writes the checkpoint of the
\* step and follows the edge to `next`
NodeReturns(node, update, outcome) ==
    /\ state' = Merge(state, update)
    /\ checkpoints' = put_checkpoint(checkpoints, thread_id, state')
    /\ response' = outcome
    /\ trace' = Append(trace, node)
    /\ UNCHANGED <<settings, exception, requests, thread_id, returned, other, switches,
                   issued, app, mongo>>

\* the LLM call of a node raised: no node catches it, graph.invoke ends with
\* it and process_query answers 500
NodeRaises(outcome) ==
    /\ exception' = outcome.content
    /\ response' = outcome
    /\ http' = HTTPException(outcome.content)
    /\ UNCHANGED <<settings, state, pc, trace, requests, thread_id, checkpoints,
                   returned, other, switches,
                   issued, app, mongo>>

\* graph.invoke returned when the route led to END: process_query answers 200
Responds ==
    http' = IF pc' = END
            THEN [status_code |-> 200,
                  body |-> QueryResponse(state', thread_id, state'["original_query"])]
            ELSE http

\* POST /query: FastAPI validates the body, process_query picks the thread and
\* calls run_agentic_rag, which builds the graph and enters graph.invoke
RunAgenticRag ==
    /\ app.status = "started"
    /\ Idle
    /\ requests # << >>
    /\ requests' = Tail(requests)
    /\ returned' = [op |-> None]
    /\ IF ~QueryRequest(Head(requests))
       THEN /\ http' = validation_error_handler
            /\ state' = StartedProcess.state
            /\ pc' = StartedProcess.pc
            /\ trace' = StartedProcess.trace
            /\ exception' = StartedProcess.exception
            /\ thread_id' = StartedProcess.thread_id
            /\ UNCHANGED <<checkpoints, issued>>
       ELSE \E t \in get_thread_id(Head(requests).thread_id, Head(requests).user_id,
                                   issued) :
               /\ thread_id' = t
               /\ issued' = issued \cup ({t} \cap Uuids)
               /\ trace' = << >>
               /\ IF ~health_check(mongo)
                  THEN /\ exception' = ConfigurationError
                       /\ http' = HTTPException(ConfigurationError)
                       /\ state' = StartedProcess.state
                       /\ pc' = StartedProcess.pc
                       /\ UNCHANGED checkpoints
                  ELSE /\ state' = invoke_state(checkpoints, t,
                                                initial_state(Head(requests).query))
                       /\ checkpoints' = put_checkpoint(checkpoints, t, state')
                       /\ pc' = NODE_QUERY_REWRITER
                       /\ exception' = None
                       /\ http' = NoResponse
    /\ UNCHANGED <<settings, response, other, switches, app, mongo>>

QueryRewrite ==
    /\ pc = NODE_QUERY_REWRITER /\ exception = None
    /\ \E outcome \in LLMOutcomes(RewriteResponses) :
          IF outcome.kind = "raise" THEN NodeRaises(outcome)
          ELSE /\ NodeReturns(NODE_QUERY_REWRITER,
                              query_rewriter_node(state, outcome.content), outcome)
               /\ pc' = NODE_NEEDS_MORE_INFO
               /\ Responds

NeedsInfoCheck ==
    /\ pc = NODE_NEEDS_MORE_INFO /\ exception = None
    /\ \E outcome \in LLMOutcomes(NeedsInfoResponses) :
          IF outcome.kind = "raise" THEN NodeRaises(outcome)
          ELSE /\ NodeReturns(NODE_NEEDS_MORE_INFO,
                              needs_more_info_node(state, outcome.content), outcome)
               /\ pc' = route_after_needs_info(state')
               /\ Responds

SourceSelect ==
    /\ pc = NODE_SOURCE_SELECTOR /\ exception = None
    /\ \E outcome \in LLMOutcomes(SourceResponses) :
          IF outcome.kind = "raise" THEN NodeRaises(outcome)
          ELSE /\ NodeReturns(NODE_SOURCE_SELECTOR,
                              source_selector_node(state, outcome.content), outcome)
               /\ pc' = NODE_RETRIEVER
               /\ Responds

Retrieve ==
    /\ pc = NODE_RETRIEVER /\ exception = None
    /\ \E outcome \in (IF state["selected_source"] = SOURCE_VECTOR_DB THEN VectorOutcomes
                       ELSE IF state["selected_source"] = SOURCE_WEB_SEARCH THEN WebOutcomes
                       ELSE ToolsOutcomes) :
          /\ NodeReturns(NODE_RETRIEVER, retriever_node(state, settings, outcome), outcome)
          /\ pc' = NODE_ANSWER_GENERATOR
          /\ Responds

AnswerGenerate ==
    /\ pc = NODE_ANSWER_GENERATOR /\ exception = None
    /\ \E outcome \in LLMOutcomes(AnswerResponses) :
          IF outcome.kind = "raise" THEN NodeRaises(outcome)
          ELSE /\ NodeReturns(NODE_ANSWER_GENERATOR,
                              answer_generator_node(state, settings, outcome.content),
                              outcome)
               /\ pc' = NODE_ANSWER_EVALUATOR
               /\ Responds

AnswerEvaluate ==
    /\ pc = NODE_ANSWER_EVALUATOR /\ exception = None
    /\ \E outcome \in LLMOutcomes(EvaluationResponses) :
          IF outcome.kind = "raise" THEN NodeRaises(outcome)
          ELSE /\ NodeReturns(NODE_ANSWER_EVALUATOR,
                              answer_evaluator_node(state, outcome.content), outcome)
               /\ pc' = route_after_evaluation(state', settings)
               /\ Responds

Next ==
    \/ RunAgenticRag
    \/ QueryRewrite
    \/ NeedsInfoCheck
    \/ SourceSelect
    \/ Retrieve
    \/ AnswerGenerate
    \/ AnswerEvaluate

Spec == Init /\ [][Next]_vars

\* the graph runs a node whenever one is due: a run does not stop between nodes
FairSpec == Spec /\ WF_vars(Next)

(***************************************************************************)
(* The service: the /query endpoint and the session manager, in one        *)
(* process.  Several requests are served one after the other.              *)
(***************************************************************************)
\* the threads the clients of the session endpoints name
SessionThreads == {"thread-A", "thread-B"}

GetSessionInfo ==
    /\ Idle
    /\ \E t \in SessionThreads, outcome \in StoreOutcomes :
          returned' = [op |-> "get_session_info", thread_id |-> t, outcome |-> outcome,
                       value |-> get_session_info(checkpoints, t, outcome)]
    /\ UNCHANGED <<settings, state, pc, response, exception, trace,
                   requests, thread_id, checkpoints, http, other, switches,
                   issued, app, mongo>>

ClearThread ==
    /\ Idle
    /\ \E t \in SessionThreads, outcome \in StoreOutcomes :
          /\ checkpoints' = IF outcome = "raise" THEN checkpoints
                            ELSE delete_many(checkpoints, t)
          /\ returned' = [op |-> "clear_thread", thread_id |-> t, outcome |-> outcome,
                          value |-> clear_thread(checkpoints, t, outcome)]
    /\ UNCHANGED <<settings, state, pc, response, exception, trace,
                   requests, thread_id, http, other, switches,
                   issued, app, mongo>>

\* POST /sessions: create_session, then get_session_info of the new id
CreateSession ==
    /\ Idle
    /\ \E user_id \in {None, "u1"}, outcome \in StoreOutcomes :
          \E t \in create_session(user_id, issued) :
             /\ issued' = issued \cup {t}
             /\ returned' = [op |-> "create_session", thread_id |-> t,
                             user_id |-> user_id, outcome |-> outcome,
                             value |-> get_session_info(checkpoints, t, outcome)]
    /\ UNCHANGED <<settings, state, pc, response, exception, trace,
                   requests, thread_id, checkpoints, http, other, switches, app, mongo>>

\* the limits a caller passes to list_active_sessions: $limit takes a
\* positive integer
Limits == 1..MaxLimit

\* GET /sessions/{thread_id}/history: the formatted messages of the snapshots,
\* or 500 when reading a snapshot raises
GetConversationHistory ==
    /\ Idle
    /\ \E t \in SessionThreads, limit \in Limits, outcome \in StoreOutcomes,
          kind \in SnapshotKinds :
          LET history == get_conversation_history(checkpoints, t, limit, outcome)
              messages == format_history(history)
          IN returned' = [op |-> "get_conversation_history", thread_id |-> t,
                          limit |-> limit, outcome |-> outcome, kind |-> kind,
                          value |-> IF history # << >> /\ kind = "checkpoint_tuple"
                                    THEN [status_code |-> 500]
                                    ELSE [status_code |-> 200,
                                          thread_id |-> t,
                                          message_count |-> Len(messages),
                                          messages |-> messages]]
    /\ UNCHANGED <<settings, state, pc, response, exception, trace,
                   requests, thread_id, checkpoints, http, other, switches,
                   issued, app, mongo>>

\* GET /sessions: the pipeline raises and the list is empty, or every thread
\* id it yields is resolved by get_session_info
ListActiveSessions ==
    /\ Idle
    /\ \E limit \in Limits, outcome \in StoreOutcomes :
          \E thread_ids \in aggregate(checkpoints, limit) :
             \E outcomes \in [1..Len(thread_ids) -> StoreOutcomes] :
                returned' = [op |-> "list_active_sessions", limit |-> limit,
                             outcome |-> outcome,
                             value |-> IF outcome = "raise" THEN << >>
                                       ELSE list_active_sessions(checkpoints, thread_ids,
                                                                 outcomes)]
    /\ UNCHANGED <<settings, state, pc, response, exception, trace,
                   requests, thread_id, checkpoints, http, other, switches,
                   issued, app, mongo>>

\* one pass per run, no web search key
ServiceSettings ==
    {s \in SettingsValues :
        s.max_iterations = 1 /\ s.tavily_api_key = "" /\ s.serpapi_api_key = ""}

\* two requests: the first on thread-A, the second on thread-A or thread-B
ServiceRequests ==
    {<<r1, r2>> : r1 \in {q \in Requests : q.thread_id = "thread-A" /\ q.user_id = None},
                  r2 \in {q \in Requests : q.thread_id \in SessionThreads /\ q.user_id = None}}

ServiceInit ==
    /\ settings \in ServiceSettings
    /\ requests \in ServiceRequests
    /\ Started

ServiceNext ==
    \/ Next
    \/ GetSessionInfo
    \/ ClearThread

ServiceSpec == ServiceInit /\ [][ServiceNext]_vars

(***************************************************************************)
(* The session endpoints next to a run on thread-A, over a collection that *)
(* holds a checkpoint of thread-B.                                          *)
(***************************************************************************)
\* the collection after an earlier run on thread-B wrote its first checkpoint
EarlierThread ==
    put_checkpoint(EmptyDict, "thread-B", initial_state("Explain machine learning"))

SessionInit ==
    /\ settings \in ServiceSettings
    /\ requests \in SingleRequest
    /\ state = StartedProcess.state
    /\ pc = StartedProcess.pc
    /\ response = StartedProcess.response
    /\ exception = StartedProcess.exception
    /\ trace = StartedProcess.trace
    /\ thread_id = StartedProcess.thread_id
    /\ http = StartedProcess.http
    /\ returned = StartedProcess.returned
    /\ other = StartedProcess
    /\ switches = 0
    /\ checkpoints = EarlierThread
    /\ issued = {}
    /\ app = lifespan(TRUE)
    /\ mongo = "up"

SessionNext ==
    \/ Next
    \/ GetSessionInfo
    \/ ClearThread
    \/ CreateSession
    \/ ListActiveSessions
    \/ GetConversationHistory

SessionSpec == SessionInit /\ [][SessionNext]_vars

(***************************************************************************)
(* Two server processes over the same database.  Each serves its requests  *)
(* one after the other; the steps of the two interleave.  The variables    *)
(* state .. returned are those of the process in view, `other` holds those *)
(* of the second process, and Switch brings the second process into view.  *)
(***************************************************************************)
Switch ==
    /\ switches < MaxSwitches
    /\ switches' = switches + 1
    /\ other' = Process
    /\ state' = other.state
    /\ pc' = other.pc
    /\ response' = other.response
    /\ exception' = other.exception
    /\ trace' = other.trace
    /\ thread_id' = other.thread_id
    /\ http' = other.http
    /\ returned' = other.returned
    /\ UNCHANGED <<settings, requests, checkpoints, issued, app, mongo>>

ConcurrentNext ==
    \/ Next
    \/ Switch

\* two requests with the same query, on the same thread or on two threads
ConcurrentRequests ==
    {<<r1, r2>> : r1 \in {q \in Requests : /\ q.query = "What is 2 + 2?"
                                          /\ q.thread_id = "thread-A"
                                          /\ q.user_id = None},
                  r2 \in {q \in Requests : /\ q.query = "What is 2 + 2?"
                                          /\ q.thread_id \in SessionThreads
                                          /\ q.user_id = None}}

ConcurrentInit ==
    /\ settings \in ServiceSettings
    /\ requests \in ConcurrentRequests
    /\ Started

ConcurrentSpec == ConcurrentInit /\ [][ConcurrentNext]_vars

(***************************************************************************)
(* The start of the application, with MongoDB up or down, and one request. *)
(***************************************************************************)
\* lifespan runs once, before the application serves a request
Lifespan ==
    /\ app.status = "starting"
    /\ app' = lifespan(health_check(mongo))
    /\ UNCHANGED <<settings, state, pc, response, exception, trace, requests,
                   thread_id, checkpoints, http, returned, other, switches,
                   issued, mongo>>

StartupInit ==
    /\ settings \in SettingsValues
    /\ requests \in SingleRequest
    /\ state = StartedProcess.state
    /\ pc = StartedProcess.pc
    /\ response = StartedProcess.response
    /\ exception = StartedProcess.exception
    /\ trace = StartedProcess.trace
    /\ thread_id = StartedProcess.thread_id
    /\ http = StartedProcess.http
    /\ returned = StartedProcess.returned
    /\ other = StartedProcess
    /\ switches = 0
    /\ checkpoints = EmptyDict
    /\ issued = {}
    /\ app = Starting
    /\ mongo \in {"up", "down"}

StartupNext == Lifespan \/ Next

StartupSpec == StartupInit /\ [][StartupNext]_vars

(***************************************************************************)
(* The ways into the engine: POST /query with or without a query, a thread *)
(* or a user, and the command line.                                        *)
(***************************************************************************)
\* whether positional arguments bind to run_agentic_rag(query, thread_id)
run_agentic_rag_binds(args) == Len(args) = 2

\* what Python raises when they do not
TypeError ==
    "run_agentic_rag() missing 1 required positional argument: 'thread_id'"

\* process_query of main.py: run_agentic_rag(query), which raises before the
\* body of run_agentic_rag is entered
CliProcessQuery ==
    /\ Idle
    /\ \E query \in Queries :
          LET args == <<query>>
          IN /\ ~run_agentic_rag_binds(args)
             /\ returned' = [op |-> "run_agentic_rag", args |-> args,
                             raised |-> TypeError]
    /\ UNCHANGED <<settings, state, pc, response, exception, trace, requests,
                   thread_id, checkpoints, http, other, switches, issued, app, mongo>>

\* two requests, the first without a thread id and with or without a query
EntryRequests ==
    {<<r1, r2>> : r1 \in [query : {"", "What is 2 + 2?"},
                          thread_id : {None}, user_id : {None, "u1"}],
                  r2 \in [query : {"Explain machine learning"},
                          thread_id : {None, "", "thread-A"}, user_id : {None, "u1"}]}

EntryInit ==
    /\ settings \in ServiceSettings
    /\ requests \in EntryRequests
    /\ Started

EntryNext == Next \/ CliProcessQuery

EntrySpec == EntryInit /\ [][EntryNext]_vars

(***************************************************************************)
(* One run under every window size the configuration can hold.             *)
(***************************************************************************)
WindowedRunSettings ==
    [max_iterations : {1},
     tavily_api_key : {""},
     serpapi_api_key : {""},
     max_context_messages : 0..MaxWindow \cup {DefaultMaxContextMessages}]

WindowedRunInit ==
    /\ settings \in WindowedRunSettings
    /\ requests \in SingleRequest
    /\ Started

WindowedRunSpec == WindowedRunInit /\ [][Next]_vars

(***************************************************************************)
(* The sliding window on its own: every log against every window size.     *)
(***************************************************************************)
WindowMessages ==
    {HumanMessage("What is 2 + 2?"),
     SystemMessage("Query rewritten to: rewritten query"),
     AIMessage("an answer")}

Logs == UNION {[1..n -> WindowMessages] : n \in 0..MaxLogLen}

WindowSettings ==
    [max_iterations : {DefaultMaxIterations},
     tavily_api_key : {""},
     serpapi_api_key : {""},
     max_context_messages : 0..MaxWindow \cup {DefaultMaxContextMessages}]

WindowInit ==
    /\ settings \in WindowSettings
    /\ requests = << >>
    /\ Started

\* a call of filter_messages_sliding_window; `limit` is the window size in force
FilterMessages ==
    /\ \E messages \in Logs, max_messages \in {<< >>} \cup {<<n>> : n \in 0..MaxWindow} :
          returned' = [op |-> "filter_messages_sliding_window",
                       messages |-> messages,
                       limit |-> IF max_messages = << >>
                                 THEN settings.max_context_messages
                                 ELSE max_messages[1],
                       value |-> filter_messages_sliding_window(messages, max_messages,
                                                                settings)]
    /\ UNCHANGED <<settings, state, pc, response, exception, trace,
                   requests, thread_id, checkpoints, http, other, switches,
                   issued, app, mongo>>

WindowNext == FilterMessages

WindowSpec == WindowInit /\ [][WindowNext]_vars

TypeOK ==
    /\ pc \in Nodes \cup {START, END}
    /\ pc # START => state["iteration"] \in 0..(DefaultMaxIterations + MaxIterBound)

(***************************************************************************)
(* Properties of the workflow engine.                                      *)
(***************************************************************************)
\* how many times node n returned in a trace
RECURSIVE Count(_, _)
Count(seq, n) ==
    IF Len(seq) = 0 THEN 0
    ELSE (IF Head(seq) = n THEN 1 ELSE 0) + Count(Tail(seq), n)

Last(seq) == seq[Len(seq)]

Running == pc \in Nodes /\ exception = None
Completed == pc = END /\ exception = None

C2_IterationWithinBound ==
    Completed => /\ 0 <= state["iteration"]
                 /\ state["iteration"] <= settings.max_iterations

\* C3: every step of a run follows the transition table: the node that runs is
\* the one the table led to, and the node that follows is the one the table names
\* for the state the node left; a step that raises leads to no node.
C3_TableStep ==
    \/ pc = START /\ pc' = NODE_QUERY_REWRITER
    \/ /\ pc \in Nodes
       /\ exception' # None
       /\ pc' = pc /\ trace' = trace
    \/ /\ pc \in Nodes
       /\ exception' = None
       /\ trace' = Append(trace, pc)
       /\ pc' = CASE pc = NODE_QUERY_REWRITER -> NODE_NEEDS_MORE_INFO
                  [] pc = NODE_NEEDS_MORE_INFO ->
                         IF state'["needs_retrieval"] THEN NODE_SOURCE_SELECTOR
                         ELSE NODE_ANSWER_GENERATOR
                  [] pc = NODE_SOURCE_SELECTOR -> NODE_RETRIEVER
                  [] pc = NODE_RETRIEVER -> NODE_ANSWER_GENERATOR
                  [] pc = NODE_ANSWER_GENERATOR -> NODE_ANSWER_EVALUATOR
                  [] pc = NODE_ANSWER_EVALUATOR ->
                         IF \/ state'["answer_is_relevant"]
                            \/ state'["iteration"] >= settings.max_iterations
                         THEN END ELSE NODE_QUERY_REWRITER

C3_TransitionTable == [][C3_TableStep]_vars

C3_Witness ==
    /\ Completed
    /\ Count(trace, NODE_QUERY_REWRITER) >= 2
    /\ Count(trace, NODE_RETRIEVER) >= 1
    /\ Count(trace, NODE_RETRIEVER) < Count(trace, NODE_ANSWER_GENERATOR)

\* C4: when AnswerEvaluate reports relevant on the pass that sets iteration to k,
\* the run ends there with iteration = k: no node runs after that pass, so the
\* run has as many QueryRewrite passes as AnswerEvaluate passes, k of each.
C4_RelevantStep ==
    (pc = NODE_ANSWER_EVALUATOR /\ exception' = None /\ state'["answer_is_relevant"])
        => (pc' = END /\ state'["iteration"] = state["iteration"] + 1)

C4_HaltsWhenRelevant ==
    /\ [][C4_RelevantStep]_vars
    /\ [](pc # START /\ state["answer_is_relevant"]
             => /\ pc = END
                /\ Last(trace) = NODE_ANSWER_EVALUATOR
                /\ Count(trace, NODE_ANSWER_EVALUATOR) = state["iteration"]
                /\ Count(trace, NODE_QUERY_REWRITER) = state["iteration"])

C4_Witness ==
    /\ Completed
    /\ state["answer_is_relevant"]
    /\ state["iteration"] = 2
    /\ state["iteration"] < settings.max_iterations

\* C5: with max_iterations = 3 and AnswerEvaluate never reporting relevant, the
\* run that ends has run QueryRewrite, AnswerGenerate and AnswerEvaluate 3 times
\* each and ends with answer_is_relevant = false and iteration = 3.
C5_ThreeFullCycles ==
    (Completed /\ settings.max_iterations = 3 /\ ~state["answer_is_relevant"])
        => /\ state["iteration"] = 3
           /\ Count(trace, NODE_QUERY_REWRITER) = 3
           /\ Count(trace, NODE_ANSWER_GENERATOR) = 3
           /\ Count(trace, NODE_ANSWER_EVALUATOR) = 3

C5_Witness ==
    /\ Completed
    /\ settings.max_iterations = 3
    /\ ~state["answer_is_relevant"]
    /\ Count(trace, NODE_ANSWER_EVALUATOR) = 3

\* C6: within a run only AnswerEvaluate changes iteration, by exactly one on
\* every pass; the five other nodes leave it as it is.
C6_IterationStep ==
    pc \in Nodes =>
        IF pc = NODE_ANSWER_EVALUATOR /\ exception' = None
        THEN state'["iteration"] = state["iteration"] + 1
        ELSE state'["iteration"] = state["iteration"]

C6_OnlyEvaluateIncrements == [][C6_IterationStep]_vars

C6_Witness ==
    /\ pc = NODE_ANSWER_EVALUATOR
    /\ exception = None
    /\ state["iteration"] = 2
    /\ Count(trace, NODE_RETRIEVER) >= 1

\* C7: whenever AnswerGenerate starts with needs_retrieval = false,
\* selected_source and retrieved_context are empty/default.
C7_NoRetrievalLeavesDefaults ==
    (Running /\ pc = NODE_ANSWER_GENERATOR /\ ~state["needs_retrieval"])
        => /\ state["selected_source"] = None
           /\ state["retrieved_context"] = ""

\* C8: whenever AnswerGenerate starts with needs_retrieval = true,
\* selected_source is one of the three sources and retrieved_context is the
\* non-empty text the Retrieve node of this cycle has just produced from it.
C8_RetrievalPopulated ==
    (Running /\ pc = NODE_ANSWER_GENERATOR /\ state["needs_retrieval"])
        => /\ state["selected_source"] \in valid_sources
           /\ state["retrieved_context"] # ""
           /\ Len(trace) >= 3
           /\ SubSeq(trace, Len(trace) - 2, Len(trace))
                 = <<NODE_NEEDS_MORE_INFO, NODE_SOURCE_SELECTOR, NODE_RETRIEVER>>
           /\ state["retrieved_context"]
                 = RetrieveContext(state["selected_source"], state["rewritten_query"],
                                   settings, response)

C8_Witness ==
    /\ Running
    /\ pc = NODE_ANSWER_GENERATOR
    /\ state["needs_retrieval"]
    /\ state["iteration"] >= 1
    /\ state["selected_source"] = SOURCE_VECTOR_DB
    /\ response = [kind |-> "search_raise", n |-> 0]

\* C9: when the LLM's answer to NeedsInfoCheck is neither a well-formed yes nor a
\* well-formed no, needs_retrieval is set to true and SourceSelect runs next.
C9_MalformedMeansRetrieve ==
    (/\ Running
     /\ Len(trace) > 0
     /\ Last(trace) = NODE_NEEDS_MORE_INFO
     /\ upper(strip(response.content)) \notin {"YES", "NO"})
        => /\ state["needs_retrieval"]
           /\ pc = NODE_SOURCE_SELECTOR

\* C10: when the LLM fails during QueryRewrite the run does not fail:
\* rewritten_query keeps its value (original_query on the first pass) and
\* NeedsInfoCheck runs next.
C10_FailedRewriteStep ==
    (pc = NODE_QUERY_REWRITER /\ exception = None /\ response'.kind = "raise")
        => /\ exception' = None
           /\ pc' = NODE_NEEDS_MORE_INFO
           /\ state'["rewritten_query"]
                 = (IF state["rewritten_query"] = "" THEN state["original_query"]
                    ELSE state["rewritten_query"])

C10_RewriteFailureFallsBack == [][C10_FailedRewriteStep]_vars

\* s starts with prefix
StartsWith(s, prefix) ==
    Len(s) >= Len(prefix) /\ SubSeq(s, 1, Len(prefix)) = prefix

\* C11: when the LLM fails in AnswerGenerate or AnswerEvaluate the caller still
\* receives a well-formed result: the partial state with error populated and
\* answer set to a diagnostic message.
C11_FatalFailureStillAnswers ==
    (exception # None /\ pc \in {NODE_ANSWER_GENERATOR, NODE_ANSWER_EVALUATOR})
        => /\ http.status_code = 200
           /\ "error" \in DOMAIN http.body
           /\ http.body.answer # ""

\* the retrieval collaborator of the Retrieve node that has just run (response
\* is its outcome) was called and raised
RetrieveCollaboratorFailed ==
    /\ pc = NODE_ANSWER_GENERATOR
    /\ Len(trace) > 0
    /\ Last(trace) = NODE_RETRIEVER
    /\ "n" \in DOMAIN response
    /\ \/ /\ state["selected_source"] = SOURCE_VECTOR_DB
          /\ response.kind \in {"init_raise", "search_raise"}
       \/ /\ state["selected_source"] = SOURCE_WEB_SEARCH
          /\ _initialize_search_provider(settings) # None
          /\ response.kind = "raise"

\* C12: a collaborator failure during Retrieve is not raised past the node:
\* retrieved_context becomes an explanatory error string and AnswerGenerate
\* runs next with it.
C12_RetrieveFailureIsReported ==
    RetrieveCollaboratorFailed
        => /\ exception = None
           /\ \/ StartsWith(state["retrieved_context"], "Error during retrieval: ")
              \/ StartsWith(state["retrieved_context"], "Web search error: ")

\* C13: after SourceSelect selected_source is one of the three sources
\* whatever the LLM answered, and it is vector_database when the answer,
\* stripped and lowercased, is none of them.
C13_SourceCoerced ==
    (Running /\ Len(trace) > 0 /\ Last(trace) = NODE_SOURCE_SELECTOR)
        => /\ pc = NODE_RETRIEVER
           /\ state["selected_source"] \in valid_sources
           /\ lower(strip(response.content)) \notin valid_sources
                 => state["selected_source"] = SOURCE_VECTOR_DB
           /\ lower(strip(response.content)) \in valid_sources
                 => state["selected_source"] = lower(strip(response.content))

C13_Witness ==
    /\ Running
    /\ Len(trace) > 0
    /\ Last(trace) = NODE_SOURCE_SELECTOR
    /\ response.content = "wikipedia"
    /\ state["selected_source"] = SOURCE_VECTOR_DB

\* C20: for every log and every N >= 0 the window of the log is the log when
\* it has at most N entries and its last N entries, in order, otherwise, so
\* the result never has more than N entries.
C20_WindowIsLastN ==
    (returned.op = "filter_messages_sliding_window" /\ returned.limit >= 0)
        => LET log == returned.messages
               N == returned.limit
           IN /\ Len(log) <= N => returned.value = log
              /\ Len(log) > N
                    => returned.value = SubSeq(log, Len(log) - N + 1, Len(log))
              /\ Len(returned.value) <= N

IsPrefix(s, t) == Len(s) <= Len(t) /\ SubSeq(t, 1, Len(s)) = s

\* the messages of the latest checkpoint of a thread
ThreadMessages(collection, t) ==
    IF ThreadCheckpoints(collection, t) = << >> THEN << >>
    ELSE ThreadCheckpoints(collection, t)[Len(ThreadCheckpoints(collection, t))]
             .channel_values["messages"]

\* C14: across every node update and every run of a thread, until the thread
\* is deleted, the previous messages sequence is a prefix of the new one, in
\* the state of the run and in what is persisted for the thread.
C14_AppendOnlyStep ==
    /\ \A t \in DOMAIN checkpoints \cap DOMAIN checkpoints' :
          IsPrefix(ThreadMessages(checkpoints, t), ThreadMessages(checkpoints', t))
    /\ (~Idle /\ exception' = None)
          => IsPrefix(state["messages"], state'["messages"])
    /\ (Idle /\ ~Idle')
          => /\ IsPrefix(ThreadMessages(checkpoints, thread_id'), state'["messages"])
             /\ Len(state'["messages"]) = Len(ThreadMessages(checkpoints, thread_id')) + 1

C15_AbortCommitsNothing ==
    exception # None => get_checkpoint(checkpoints, thread_id) = NoCheckpoint

C16_OneRunPerThread ==
    ~ (/\ Running
       /\ other.pc \in Nodes
       /\ other.exception = None
       /\ other.thread_id = thread_id)

\* C17: for two different threads, no operation on one adds, changes or
\* removes a checkpoint of the other: a step changes the checkpoints of the
\* thread it is made for and of no other (a step of a run for the thread of
\* the run, a clear_thread for the thread it names, a get_session_info for none).
C17_IsolationStep ==
    \A t \in DOMAIN checkpoints \cup DOMAIN checkpoints' :
       ThreadCheckpoints(checkpoints', t) # ThreadCheckpoints(checkpoints, t)
          => IF Idle /\ Idle'
             THEN returned'.op = "clear_thread" /\ returned'.thread_id = t
             ELSE thread_id' = t

C21_WindowIdempotent ==
    (returned.op = "filter_messages_sliding_window" /\ returned.limit >= 0)
        => filter_messages_sliding_window(returned.value, <<returned.limit>>, settings)
              = returned.value

C21_Witness ==
    /\ returned.op = "filter_messages_sliding_window"
    /\ returned.limit = 1
    /\ Len(returned.messages) = 3
    /\ returned.value = <<returned.messages[3]>>


\* C22: the window applied inside AnswerGenerate leaves the messages log of the
\* state as it is: for every window size, what is persisted after the node is
\* the full log from before the node followed by the one assistant message
\* the node appends.
C22_WindowFrameStep ==
    (pc = NODE_ANSWER_GENERATOR /\ pc' = NODE_ANSWER_EVALUATOR)
        => LET appended == state["messages"] \o <<AIMessage(state'["answer"])>>
           IN /\ state'["messages"] = appended
              /\ ThreadMessages(checkpoints, thread_id) = state["messages"]
              /\ ThreadMessages(checkpoints', thread_id) = appended

C22_WindowLeavesLog == [][C22_WindowFrameStep]_vars

C22_Witness ==
    /\ pc = NODE_ANSWER_EVALUATOR
    /\ Last(trace) = NODE_ANSWER_GENERATOR
    /\ settings.max_context_messages = 2
    /\ Len(state["messages"]) >= 4
    /\ ThreadMessages(checkpoints, thread_id) = state["messages"]
    /\ Last(state["messages"]) = AIMessage(state["answer"])


\* a call of SessionManager.clear_thread has just returned
ClearThreadReturns == returned'.op = "clear_thread" /\ returned' # returned

\* C23: delete on a thread with no checkpoints returns false and changes
\* nothing; on a thread with checkpoints it removes all of them, so that a
\* following get_info of the thread reports message_count = 0 and a second
\* delete of the thread returns false.
C23_DeleteStep ==
    ClearThreadReturns
        => LET t == returned'.thread_id
           IN IF ThreadCheckpoints(checkpoints, t) = << >>
              THEN /\ returned'.value = FALSE
                   /\ checkpoints' = checkpoints
              ELSE /\ ThreadCheckpoints(checkpoints', t) = << >>
                   /\ \A outcome \in StoreOutcomes :
                         /\ get_session_info(checkpoints', t, outcome).message_count = 0
                         /\ clear_thread(checkpoints', t, outcome) = FALSE

C23_DeleteRemovesAll == [][C23_DeleteStep]_vars

\* C24: whenever delete of a thread returns, with true or with false, no
\* checkpoint of the thread remains in the store.
C24_DeleteStep ==
    ClearThreadReturns => ThreadCheckpoints(checkpoints', returned'.thread_id) = << >>

C24_NothingRemainsAfterDelete == [][C24_DeleteStep]_vars

\* C25: get_info of a thread returns message_count = 0 when the thread has no
\* checkpoint, and otherwise the length of messages in the latest checkpoint
\* of the thread.
C25_InfoCountsLatest ==
    returned.op = "get_session_info"
        => returned.value.message_count
              = (IF ThreadCheckpoints(checkpoints, returned.thread_id) = << >> THEN 0
                 ELSE Len(ThreadMessages(checkpoints, returned.thread_id)))


\* a call of POST /sessions has just returned
CreateSessionReturns == returned'.op = "create_session" /\ returned' # returned

\* C26: create returns an identifier different from every identifier returned
\* before and writes no checkpoint: the store is unchanged, list does not
\* return the new id, and get_info of the new id reports message_count = 0.
C26_CreateStep ==
    CreateSessionReturns
        => LET t == returned'.thread_id
           IN /\ t \notin issued
              /\ checkpoints' = checkpoints
              /\ \A limit \in Limits : \A thread_ids \in aggregate(checkpoints', limit) :
                    \A i \in 1..Len(thread_ids) : thread_ids[i] # t
              /\ returned'.value = [thread_id |-> t, message_count |-> 0]
              /\ \A outcome \in StoreOutcomes :
                    get_session_info(checkpoints', t, outcome).message_count = 0

C26_CreateWritesNothing == [][C26_CreateStep]_vars

C26_Witness ==
    /\ returned.op = "create_session"
    /\ returned.outcome = "ok"
    /\ returned.user_id = "u1"
    /\ Cardinality(issued) = 2
    /\ DOMAIN checkpoints = {"thread-A", "thread-B"}
    /\ returned.thread_id \notin DOMAIN checkpoints

\* C27: list(limit) returns at most limit records, no two of them with the
\* same thread_id, only for threads that have at least one checkpoint, and
\* each record is what get_info of its thread returns.
C27_ListIsDistinctKnownAndBounded ==
    returned.op = "list_active_sessions"
        => LET sessions == returned.value
           IN /\ Len(sessions) <= returned.limit
              /\ \A i, j \in 1..Len(sessions) :
                    i # j => sessions[i].thread_id # sessions[j].thread_id
              /\ \A i \in 1..Len(sessions) :
                    /\ ThreadCheckpoints(checkpoints, sessions[i].thread_id) # << >>
                    /\ \E outcome \in StoreOutcomes :
                          sessions[i] = get_session_info(checkpoints,
                                                         sessions[i].thread_id, outcome)

C27_Witness ==
    /\ returned.op = "list_active_sessions"
    /\ returned.outcome = "ok"
    /\ returned.limit = 1
    /\ DOMAIN checkpoints = {"thread-A", "thread-B"}
    /\ Len(returned.value) = 1
    /\ returned.value[1].thread_id = "thread-A"
    /\ returned.value[1].message_count >= 4


\* C28: if the store is unreachable at startup, startup fails with a
\* ConfigurationError and the engine accepts no run: the application does not
\* get to serve, and no request is taken.
C28_UnreachableStoreStopsStartup ==
    ~health_check(mongo)
        => /\ app.status # "started"
           /\ Len(requests) = 1
           /\ http = NoResponse

\* POST /query has just taken the request at the head of the queue
RequestTaken == requests # << >> /\ requests' = Tail(requests)

\* C29: a request whose query is empty is rejected before any engine node
\* runs and before any checkpoint is written.
C29_RejectStep ==
    (RequestTaken /\ Head(requests).query = "")
        => /\ http'.status_code = 422
           /\ pc' \notin Nodes
           /\ trace' = << >>
           /\ checkpoints' = checkpoints

C29_EmptyQueryRejected ==
    /\ [][C29_RejectStep]_vars
    /\ [](\A t \in DOMAIN checkpoints : \A i \in 1..Len(checkpoints[t]) :
             checkpoints[t][i].channel_values["original_query"] # "")

C29_Witness ==
    /\ http = validation_error_handler
    /\ Len(requests) = 1
    /\ pc = START
    /\ trace = << >>
    /\ checkpoints = EmptyDict

\* the fields of the state a run returns
ResultFields ==
    {"original_query", "rewritten_query", "needs_retrieval", "answer",
     "answer_is_relevant", "iteration"}

\* C30: a run submitted with a query and no thread id creates a fresh session,
\* runs to a terminal condition and returns a state in which original_query,
\* rewritten_query, needs_retrieval, answer, answer_is_relevant and iteration
\* are all defined.
C30_SubmitStep ==
    /\ (returned'.op = "run_agentic_rag" /\ returned' # returned)
          => "raised" \notin DOMAIN returned'
    /\ (RequestTaken /\ ~Truthy(Head(requests).thread_id)
                     /\ ~Truthy(Head(requests).user_id)
                     /\ QueryRequest(Head(requests)))
          => /\ ThreadCheckpoints(checkpoints, thread_id') = << >>
             /\ pc' = NODE_QUERY_REWRITER

C30_FreshRunReturnsFullState ==
    /\ [][C30_SubmitStep]_vars
    /\ [](Completed => ResultFields \subseteq DOMAIN state)


(***************************************************************************)
(* Properties of the state fields over the cycles of a run.                *)
(***************************************************************************)
\* C31: within a run original_query is the submitted query from the first
\* node to the end of the run: the run starts with it and no node changes it,
\* also not across retry cycles.
C31_OriginalQueryStep ==
    /\ (RequestTaken /\ pc' = NODE_QUERY_REWRITER)
          => state'["original_query"] = Head(requests).query
    /\ pc \in Nodes => state'["original_query"] = state["original_query"]

C31_OriginalQueryKept ==
    /\ [][C31_OriginalQueryStep]_vars
    /\ [](pc # START => state["original_query"] = state["messages"][1].content)

C31_Witness ==
    /\ Completed
    /\ state["iteration"] = 3
    /\ Count(trace, NODE_RETRIEVER) >= 1
    /\ state["original_query"] = "Explain machine learning"
    /\ state["rewritten_query"] # state["original_query"]


\* some NeedsInfoCheck pass recorded in the log reported that retrieval is needed
ReportedNeedsRetrieval ==
    \E i \in 1..Len(state["messages"]) :
        state["messages"][i] = HumanMessage("Needs retrieval: " \o BoolStr(TRUE))

\* C32: in a run where NeedsInfoCheck reports false on every pass, SourceSelect
\* and Retrieve are never executed and selected_source is still empty when the
\* run ends.
C32_NoRetrievalSkipsSources ==
    (pc # START /\ ~ReportedNeedsRetrieval)
        => /\ Count(trace, NODE_SOURCE_SELECTOR) = 0
           /\ Count(trace, NODE_RETRIEVER) = 0
           /\ pc \notin {NODE_SOURCE_SELECTOR, NODE_RETRIEVER}
           /\ state["selected_source"] = None

C32_Witness ==
    /\ Completed
    /\ ~ReportedNeedsRetrieval
    /\ state["iteration"] = 3
    /\ Count(trace, NODE_NEEDS_MORE_INFO) = 3
    /\ state["selected_source"] = None


\* C33: when needs_retrieval is true, selected_source is vector_database and
\* the retriever returns no document, retrieved_context becomes
\* "No relevant documents found." and the run goes on to AnswerGenerate
\* without aborting.
C33_NoDocumentsStep ==
    (/\ pc = NODE_RETRIEVER
     /\ exception = None
     /\ state["needs_retrieval"]
     /\ state["selected_source"] = SOURCE_VECTOR_DB
     /\ "n" \in DOMAIN response'
     /\ response'.kind \in {"ok", "search_raise"}
     /\ response'.n = 0)
        => /\ state'["retrieved_context"] = "No relevant documents found."
           /\ pc' = NODE_ANSWER_GENERATOR
           /\ exception' = None

C33_NoDocumentsGoesOn == [][C33_NoDocumentsStep]_vars

C33_Witness ==
    /\ pc = NODE_ANSWER_GENERATOR
    /\ exception = None
    /\ Last(trace) = NODE_RETRIEVER
    /\ state["needs_retrieval"]
    /\ state["selected_source"] = SOURCE_VECTOR_DB
    /\ response = [kind |-> "ok", n |-> 0]
    /\ state["retrieved_context"] = "No relevant documents found."


\* the position of the last return of node n in a trace, 0 if there is none
RECURSIVE LastIndex(_, _)
LastIndex(seq, n) ==
    IF seq = << >> THEN 0
    ELSE IF seq[Len(seq)] = n THEN Len(seq)
    ELSE LastIndex(SubSeq(seq, 1, Len(seq) - 1), n)

\* C34: the context given to AnswerGenerate and AnswerEvaluate in a cycle is
\* the context retrieved in that same cycle, and is empty (the direct-answer
\* prompt) when the NeedsInfoCheck of that cycle reported false: the context
\* of an earlier cycle is never used again.
C34_ContextOfThisCycle ==
    (Running /\ pc \in {NODE_ANSWER_GENERATOR, NODE_ANSWER_EVALUATOR})
        => LET query == state["rewritten_query"]
               context == get(state, "retrieved_context", None)
           IN IF state["needs_retrieval"]
              THEN /\ LastIndex(trace, NODE_RETRIEVER)
                         > LastIndex(trace, NODE_QUERY_REWRITER)
                   /\ generation_input(query, context).prompt = "ANSWER_GENERATION_PROMPT"
              ELSE /\ generation_input(query, context).prompt
                         = "ANSWER_GENERATION_NO_CONTEXT_PROMPT"
                   /\ evaluation_input(query, state["answer"], context).context
                         = "No context provided"


\* the nodes that call the LLM
LLMNodes ==
    {NODE_QUERY_REWRITER, NODE_NEEDS_MORE_INFO, NODE_SOURCE_SELECTOR,
     NODE_ANSWER_GENERATOR, NODE_ANSWER_EVALUATOR}

\* C35: a node calls its collaborator at most once each time it runs, so in a
\* completed run the number of AnswerEvaluate calls is the final iteration and
\* no LLM node is called more than max_iterations times.
C35_CallsBoundedByBudget ==
    Completed
        => /\ Count(trace, NODE_ANSWER_EVALUATOR) = state["iteration"]
           /\ \A n \in LLMNodes : Count(trace, n) <= settings.max_iterations


\* C36: when a run has completed, answer_is_relevant is true or iteration has
\* reached max_iterations: no run ends with an answer that is not relevant
\* while retry budget remains.
C36_EndsRelevantOrExhausted ==
    Completed => (state["answer_is_relevant"]
                    \/ state["iteration"] >= settings.max_iterations)

C36_Witness ==
    /\ Completed
    /\ ~state["answer_is_relevant"]
    /\ settings.max_iterations = DefaultMaxIterations
    /\ state["iteration"] = settings.max_iterations
    /\ Count(trace, NODE_SOURCE_SELECTOR) = 2


\* C37: a new run on a thread that already has checkpoints starts with
\* iteration = 0, needs_retrieval = false and selected_source,
\* retrieved_context and answer empty, while the messages of the earlier runs
\* are kept and the new user message is appended after them.
C37_ResumeStep ==
    (/\ RequestTaken
     /\ pc' = NODE_QUERY_REWRITER
     /\ ThreadCheckpoints(checkpoints, thread_id') # << >>)
        => /\ state'["iteration"] = 0
           /\ state'["needs_retrieval"] = FALSE
           /\ state'["selected_source"] = None
           /\ state'["retrieved_context"] = ""
           /\ state'["answer"] = ""
           /\ state'["messages"] = ThreadMessages(checkpoints, thread_id')
                                      \o <<HumanMessage(Head(requests).query)>>
           /\ ThreadMessages(checkpoints', thread_id') = state'["messages"]

C37_ResumeResetsFieldsKeepsLog == [][C37_ResumeStep]_vars

C37_Witness ==
    /\ pc = NODE_QUERY_REWRITER
    /\ trace = << >>
    /\ requests = << >>
    /\ thread_id = "thread-A"
    /\ state["iteration"] = 0
    /\ state["answer"] = ""
    /\ state["selected_source"] = None
    /\ Len(state["messages"]) >= 8
    /\ \E i \in 1..Len(checkpoints["thread-A"]) :
          /\ checkpoints["thread-A"][i].channel_values["iteration"] = 1
          /\ checkpoints["thread-A"][i].channel_values["selected_source"] # None


\* whether msg is the message node n appends when it returns
IsMessageOf(n, msg) ==
    IF n = NODE_QUERY_REWRITER
    THEN msg.type = "system" /\ StartsWith(msg.content, "Query rewritten to: ")
    ELSE IF n = NODE_NEEDS_MORE_INFO
    THEN msg.type = "human" /\ StartsWith(msg.content, "Needs retrieval: ")
    ELSE IF n = NODE_SOURCE_SELECTOR
    THEN msg.type = "human" /\ StartsWith(msg.content, "Selected source: ")
    ELSE IF n = NODE_RETRIEVER
    THEN msg.type = "human" /\ StartsWith(msg.content, "Retrieved context from ")
    ELSE IF n = NODE_ANSWER_GENERATOR
    THEN msg.type = "ai"
    ELSE msg.type = "human" /\ StartsWith(msg.content, "Answer is relevant: ")

\* C38: a completed run of k cycles, r of them through SourceSelect and
\* Retrieve, appends exactly 1 + 4k + 2r messages to the log of the thread: the
\* user message first, then one message for every node that ran, in the order
\* the nodes ran.
C38_MessagesPerRun ==
    Completed
        => LET k == Count(trace, NODE_ANSWER_EVALUATOR)
               r == Count(trace, NODE_RETRIEVER)
               log == state["messages"]
           IN /\ Len(log) = 1 + 4 * k + 2 * r
              /\ ThreadMessages(checkpoints, thread_id) = log
              /\ log[1] = HumanMessage(state["original_query"])
              /\ Len(log) = 1 + Len(trace)
              /\ \A i \in 1..Len(trace) : IsMessageOf(trace[i], log[i + 1])

C38_Witness ==
    /\ Completed
    /\ Count(trace, NODE_ANSWER_EVALUATOR) = 3
    /\ Count(trace, NODE_RETRIEVER) = 2
    /\ Len(state["messages"]) = 17
    /\ state["answer_is_relevant"]


\* C39: the conversation-history read of a thread with limit L returns at
\* most L messages.
C39_HistoryWithinLimit ==
    (returned.op = "get_conversation_history" /\ returned.value.status_code = 200)
        => /\ Len(returned.value.messages) <= returned.limit
           /\ returned.value.message_count <= returned.limit


\* C40: the thread of a query is the supplied thread_id whenever one is given;
\* otherwise it is a function of user_id alone, so that two requests of the
\* same user without a thread_id run on the same thread; only when neither is
\* given is a new identifier generated, different from every earlier one.
C40_ThreadChoiceStep ==
    (RequestTaken /\ QueryRequest(Head(requests)))
        => LET request == Head(requests)
           IN IF Truthy(request.thread_id)
              THEN thread_id' = request.thread_id
              ELSE IF Truthy(request.user_id)
              THEN thread_id' = "user_" \o request.user_id \o "_session"
              ELSE /\ thread_id' \in Uuids
                   /\ thread_id' \notin issued
                   /\ ThreadCheckpoints(checkpoints, thread_id') = << >>

C40_ThreadChoice == [][C40_ThreadChoiceStep]_vars

C40_Witness ==
    /\ requests = << >>
    /\ pc = NODE_QUERY_REWRITER
    /\ trace = << >>
    /\ thread_id = "user_u1_session"
    /\ state["original_query"] = "Explain machine learning"
    /\ state["messages"][1] = HumanMessage("What is 2 + 2?")
    /\ Len(checkpoints["user_u1_session"]) >= 6

====
